---------------------------- MODULE Spec2Model ----------------------------
(***************************************************************************)
(* Model of src/crawler.py: the breadth-first crawl loop of crawl_website  *)
(* and the boilerplate stripper HTMLPatternCleaner.                        *)
(*                                                                         *)
(* Page text is a sequence of code points (integers); a URL is a sequence  *)
(* of one-character strings.  The two kinds of string never meet.          *)
(***************************************************************************)
EXTENDS Integers, Sequences, FiniteSets, TLC

VARIABLES
    base_url,         \* crawl_website argument
    exclusion_list,   \* crawl_website argument (None already replaced by [])
    visited,          \* local of crawl_website: set of URLs
    urls_to_crawl,    \* local of crawl_website: FIFO list of URLs
    results,          \* local of crawl_website: list of records
    pc,               \* "idle" | "loop" | "done": position of crawl_website
    calls,            \* number of crawl_website calls made in this process
    fetched,          \* history: URLs requests.get was issued for, this call
    enqueued,         \* history: every entry ever put in urls_to_crawl, this call
    last,             \* history: what the last loop iteration did
    common_patterns,  \* HTMLPatternCleaner.common_patterns
    max_patterns,     \* HTMLPatternCleaner.max_patterns
    clean_calls,      \* history: direct clean_content calls and what they did
    match_call        \* a direct find_longest_common_substring call

vars == <<base_url, exclusion_list, visited, urls_to_crawl, results, pc, calls,
          fetched, enqueued, last, common_patterns, max_patterns, clean_calls,
          match_call>>

crawlVars == <<base_url, exclusion_list, visited, urls_to_crawl, results, pc,
               calls, fetched, enqueued, last>>

-----------------------------------------------------------------------------
(* Generic sequence helpers *)

MinOf(S) == CHOOSE k \in S : \A m \in S : k <= m

MaxOf(S) == CHOOSE k \in S : \A m \in S : k >= m

Chars(s) == {s[i] : i \in 1..Len(s)}

\* the element of a one-element set: Only({F(x) : x \in {e}}) is F(e) with e
\* evaluated once
Only(S) == CHOOSE x \in S : TRUE

\* s[i..] starts with p  (str.startswith / substring test at an offset)
MatchAt(s, i, p) ==
    /\ i + Len(p) - 1 <= Len(s)
    /\ \A k \in 1..Len(p) : s[i + k - 1] = p[k]

\* Python's  p in s  for strings
Contains(s, p) == \E i \in 1..(Len(s) + 1) : MatchAt(s, i, p)

\* Python's  s.startswith(p)
StartsWith(s, p) == MatchAt(s, 1, p)

-----------------------------------------------------------------------------
(* Text inputs are built from runs of code points *)

\* n pairwise distinct code points a, a+1, ...
Rng(a, n) == [i \in 1..n |-> a + i - 1]

\* n code points cycling through a, ..., a+p-1 (every one of them frequent)
Cyc(a, p, n) == [i \in 1..n |-> a + ((i - 1) % p)]

SP == 32

\* code points below 256 for which str.isspace() holds; these are the
\* characters str.strip() trims and the regex class \s matches
Whitespace == {9, 10, 11, 12, 13, 28, 29, 30, 31, 32, 133, 160}

-----------------------------------------------------------------------------
(* HTMLPatternCleaner *)

MinPatternLen == 250

MaxIterations == 5

DefaultMaxPatterns == 5

AutojunkMinLen == 200

\* difflib.SequenceMatcher.__chain_b with autojunk left at its default (True):
\* when b has n >= 200 elements, an element occurring more than n // 100 + 1
\* times in b is "popular" and is dropped from the index b2j.
IsPopular(count, n) == n >= AutojunkMinLen /\ count > (n \div 100) + 1

\* b2j restricted to the elements of a: where each of them occurs in b
B2J(a, b) == [c \in Chars(a) \cap Chars(b) |-> {j \in 1..Len(b) : b[j] = c}]

\* the elements left in b2j once the popular ones are purged
Indexed(b2j, n) == {c \in DOMAIN b2j : ~IsPopular(Cardinality(b2j[c]), n)}

\* the pairs (i, j) at which a run of equal indexed elements ends
RunEnds(a, b, b2j, indexed) ==
    UNION {{<<i, j>> : j \in {jj \in b2j[a[i]] :
                                ~(i < Len(a) /\ jj < Len(b) /\ a[i + 1] = b[jj + 1]
                                  /\ a[i + 1] \in indexed)}} :
           i \in {ii \in 1..Len(a) : a[ii] \in indexed}}

\* j2len[j] when the loop is at i: the length of the run ending at (i, j)
RunLen(a, b, indexed, i, j) ==
    MinOf({k \in 1..(IF i < j THEN i ELSE j) :
              \/ k = (IF i < j THEN i ELSE j)
              \/ a[i - k] # b[j - k]
              \/ a[i - k] \notin indexed})

RunLens(a, b, indexed, ends) == [e \in ends |-> RunLen(a, b, indexed, e[1], e[2])]

\* besti, bestj, bestsize after the main loop: k > bestsize is strict, i and
\* then j ascend, so the first run of maximal length in (i, j) order is kept
BestRun(lens) ==
    IF DOMAIN lens = {} THEN [a |-> 1, b |-> 1, size |-> 0]
    ELSE Only({ Only({ [a |-> e[1] - size + 1, b |-> e[2] - size + 1, size |-> size] :
                       e \in {CHOOSE f \in DOMAIN lens :
                                 /\ lens[f] = size
                                 /\ \A g \in DOMAIN lens :
                                       lens[g] = size =>
                                          \/ f[1] < g[1]
                                          \/ f[1] = g[1] /\ f[2] <= g[2]} }) :
                size \in {MaxOf({lens[e] : e \in DOMAIN lens})} })

\* while besti > alo and bestj > blo and a[besti-1] == b[bestj-1]: ...
ExtendBack(a, b, m) ==
    Only({ [a |-> m.a - k, b |-> m.b - k, size |-> m.size + k] :
           k \in {MinOf({d \in 0..((IF m.a < m.b THEN m.a ELSE m.b) - 1) :
                            \/ d = (IF m.a < m.b THEN m.a ELSE m.b) - 1
                            \/ a[m.a - d - 1] # b[m.b - d - 1]})} })

\* while besti+bestsize < ahi and bestj+bestsize < bhi and a[...] == b[...]: ...
ExtendForward(a, b, m) ==
    Only({ [a |-> m.a, b |-> m.b, size |-> m.size + k] :
           k \in {MinOf({d \in 0..room :
                            d = room \/ a[m.a + m.size + d] # b[m.b + m.size + d]}) :
                  room \in {IF Len(a) - m.a < Len(b) - m.b
                            THEN Len(a) - m.a - m.size + 1
                            ELSE Len(b) - m.b - m.size + 1}} })

\* difflib.SequenceMatcher(None, a, b).find_longest_match(0, len(a), 0, len(b)),
\* 1-based.  The longest run is searched over the indexed (non-popular)
\* elements of b only; the first run of maximal size in (end in a, end in b)
\* order wins; the winner is then extended on both sides over equal elements,
\* popular ones included (no element is junk, isjunk being None).  With no
\* indexed match the search starts from the empty match at (1, 1) and only the
\* forward extension can grow it.
find_longest_match(a, b) ==
    Only({ ExtendForward(a, b, m2) :
           m2 \in { ExtendBack(a, b, m1) :
           m1 \in { BestRun(lens) :
           lens \in { RunLens(a, b, x[2], RunEnds(a, b, x[1], x[2])) :
           x \in { <<b2j, Indexed(b2j, Len(b))>> : b2j \in {B2J(a, b)} } } } } })

find_longest_common_substring(str1, str2) ==
    Only({ SubSeq(str1, match.a, match.a + match.size - 1) :
           match \in {find_longest_match(str1, str2)} })

\* Longer letting a later match of the same length win: len(common) >= ...
LongerOrEqual(common, longest_common) == Len(common) >= Len(longest_common)

\* if len(common) > len(longest_common)
Longer(common, longest_common) == Len(common) > Len(longest_common)

\* common = self.find_longest_common_substring(pattern, cleaned_content), for
\* every stored text (a text the store holds several times is matched once)
CommonWith(patterns, cleaned_content) ==
    [t \in {patterns[k][2] : k \in 1..Len(patterns)} |->
        find_longest_common_substring(t, cleaned_content)]

\* for _, pattern in self.common_patterns: ...  (lcs maps each stored text to
\* its longest common substring with the current content)
RECURSIVE ScanPatterns(_, _, _, _)
ScanPatterns(patterns, k, lcs, longest_common) ==
    IF k > Len(patterns) THEN longest_common
    ELSE LET common == lcs[patterns[k][2]]
         IN ScanPatterns(patterns, k + 1, lcs,
                         IF Longer(common, longest_common) THEN common
                         ELSE longest_common)

\* Replace deleting the first occurrence only: str.replace(old, "", 1)
ReplaceFirst(s, old) ==
    LET n == Len(s)
        m == Len(old)
        occ == {i \in 1..(n - m + 1) : s[i] = old[1] /\ MatchAt(s, i, old)}
    IN IF m = 0 \/ occ = {} THEN s
       ELSE SubSeq(s, 1, MinOf(occ) - 1) \o SubSeq(s, MinOf(occ) + m, n)

\* str.replace(old, ""): every non-overlapping occurrence, left to right
RECURSIVE Replace(_, _)
Replace(s, old) ==
    LET n == Len(s)
        m == Len(old)
        occ == {i \in 1..(n - m + 1) : s[i] = old[1] /\ MatchAt(s, i, old)}
    IN IF m = 0 \/ occ = {} THEN s
       ELSE LET i == MinOf(occ)
            IN SubSeq(s, 1, i - 1) \o Replace(SubSeq(s, i + m, n), old)

\* str.strip()
Strip(s) ==
    LET keep == {i \in 1..Len(s) : s[i] \notin Whitespace}
    IN IF keep = {} THEN <<>> ELSE SubSeq(s, MinOf(keep), MaxOf(keep))

\* whether a found pattern is appended to the store
HasCapacity(patterns, maxp) == Len(patterns) < maxp

\* AddPattern keeping the store sorted by its (-length, pattern) keys, as a
\* heap or a sorted insert would
AddPatternSorted(patterns, pattern) ==
    LET at == MinOf({k \in 1..(Len(patterns) + 1) :
                        k = Len(patterns) + 1 \/ -patterns[k][1] < Len(pattern)})
    IN SubSeq(patterns, 1, at - 1) \o <<<<-Len(pattern), pattern>>>>
       \o SubSeq(patterns, at, Len(patterns))

\* self.common_patterns.append((-len(pattern), pattern))
AddPattern(patterns, pattern) == Append(patterns, <<-Len(pattern), pattern>>)

\* MayIterate with the bound off by one: while iterations <= 5
MayIterateInclusive(iterations) == iterations <= MaxIterations

\* while iterations < 5
MayIterate(iterations) == iterations < MaxIterations

\* BelowThreshold with the bound off by one: if len(longest_common) <= 250
BelowThresholdInclusive(longest_common) == Len(longest_common) <= MinPatternLen

\* if len(longest_common) < 250: break
BelowThreshold(longest_common) == Len(longest_common) < MinPatternLen

\* the history entry of one execution of the loop body: the value of common
\* for each stored pattern, the best match, the content the body left and
\* whether it stripped (FALSE: it broke out of the loop)
LoopStep(patterns, lcs, longest_common, after, stripped) ==
    [commons |-> [k \in 1..Len(patterns) |-> lcs[patterns[k][2]]],
     match |-> longest_common, after |-> after, stripped |-> stripped]

\* the while loop of clean_content.  The result carries the iteration count
\* and, as history, one entry per execution of the loop body
RECURSIVE StripLoop(_, _, _, _)
StripLoop(cleaned_content, patterns, maxp, iterations) ==
    IF ~MayIterate(iterations)
    THEN [content |-> cleaned_content, patterns |-> patterns,
          iterations |-> iterations, steps |-> <<>>]
    ELSE Only({ Only({
           IF BelowThreshold(longest_common)
           THEN [content |-> cleaned_content, patterns |-> patterns,
                 iterations |-> iterations,
                 steps |-> <<LoopStep(patterns, lcs, longest_common,
                                      cleaned_content, FALSE)>>]
           ELSE Only({ Only({ [r EXCEPT !.steps =
                                  <<LoopStep(patterns, lcs, longest_common,
                                             n[1], TRUE)>> \o @] :
                              r \in {StripLoop(n[1], n[2], maxp, iterations + 1)} }) :
                       n \in {<<Replace(cleaned_content, longest_common),
                                IF HasCapacity(patterns, maxp)
                                THEN AddPattern(patterns, longest_common)
                                ELSE patterns>>} }) :
           longest_common \in {ScanPatterns(patterns, 1, lcs, <<>>)} }) :
           lcs \in {CommonWith(patterns, cleaned_content)} })

\* Seed with the returned text trimmed, as the non-seeding branch does
SeedStripped(content) ==
    [ret |-> Strip(content), patterns |-> AddPattern(<<>>, content),
     iterations |-> 0, steps |-> <<>>]

\* the seeding branch of clean_content (store empty)
Seed(content) ==
    [ret |-> content, patterns |-> AddPattern(<<>>, content), iterations |-> 0,
     steps |-> <<>>]

\* clean_content as a function of the store: returned text, store afterwards
clean_content(patterns, maxp, content) ==
    IF patterns = <<>>
    THEN Seed(content)
    ELSE Only({ [ret |-> Strip(r.content), patterns |-> r.patterns,
                 iterations |-> r.iterations, steps |-> r.steps] :
                r \in {StripLoop(content, patterns, maxp, 0)} })

-----------------------------------------------------------------------------
(* URLs *)

HASH == <<"#">>

HTTP == <<"h", "t", "t", "p", ":", "/", "/">>

EX == HTTP \o <<"e", "x", ".", "t", "e", "s", "t">>

OTHER_SITE == HTTP \o <<"o", "t", "h", "e", "r", ".", "t", "e", "s", "t">>

PDF == <<".", "p", "d", "f">>

JPG == <<".", "j", "p", "g">>

DOCX == <<".", "d", "o", "c", "x">>

\* index of the first occurrence of p in s, or Len(s) + 1 when there is none
FindFirst(s, p) ==
    MinOf({i \in 1..(Len(s) + 1) : i = Len(s) + 1 \/ MatchAt(s, i, p)})

\* urllib.parse.urljoin(base, url) for the reference shapes the pages of the
\* model use: "", "scheme://...", "/path", "path", each with an optional
\* "#fragment" (no query, no parameters, no dot segments).  The base always
\* has a scheme and a network location.
urljoin(base, url) ==
    LET hashB == FindFirst(base, HASH)
        b == SubSeq(base, 1, hashB - 1)              \* base without fragment
        afterScheme == FindFirst(b, <<":", "/", "/">>) + 3
        rel == FindFirst(SubSeq(b, afterScheme, Len(b)), <<"/">>)
        origin == SubSeq(b, 1, afterScheme + rel - 2)      \* scheme://netloc
        bpath == SubSeq(b, afterScheme + rel - 1, Len(b))  \* "" or "/..."
        hashU == FindFirst(url, HASH)
        path == SubSeq(url, 1, hashU - 1)
        frag == SubSeq(url, hashU, Len(url))               \* "" or "#..."
        slashes == {i \in 1..Len(bpath) : bpath[i] = "/"}
        dir == IF slashes = {} THEN <<"/">> ELSE SubSeq(bpath, 1, MaxOf(slashes))
    IN IF url = <<>> THEN base
       ELSE IF Contains(url, <<":", "/", "/">>) THEN url
       ELSE IF path = <<>> THEN b \o frag
       ELSE IF path[1] = "/" THEN origin \o path \o frag
       ELSE origin \o dir \o path \o frag

-----------------------------------------------------------------------------
(* The web the crawler runs against *)

\* a block of 250 pairwise distinct characters, the boilerplate of the site
K == Rng(1000, 250)

NO_TITLE == <<78, 111, 32, 84, 105, 116, 108, 101>>   \* "No Title"

\* the arguments crawl_website is called with
CrawlArgs ==
    { [base |-> EX \o <<"/">>, excl |-> <<PDF, JPG, DOCX>>],
      [base |-> EX \o <<"/">>, excl |-> <<>>],
      [base |-> EX \o <<"/", "#", "t">>, excl |-> <<>>],
      [base |-> EX \o <<"/", "d">>, excl |-> <<<<"e", "x">>>>] }

\* the responses a successful fetch can deliver: title element (or none),
\* text of the document, href attributes of its anchors in document order
Pages ==
    { [has_title |-> TRUE, title |-> <<SP, 65, SP>>,
       text |-> K \o <<SP, 10, SP>> \o Rng(2000, 20),
       hrefs |-> << <<"/", "b">>, <<"/", "c", "#", "f", "r", "a", "g">>,
                    OTHER_SITE \o <<"/", "x">> >>],
      [has_title |-> FALSE, title |-> <<>>,
       text |-> <<SP, 67, 9, 9, 68, SP>>,
       hrefs |-> << <<"/">>, <<"/", "b">>, <<"d">>, <<"/", "b">> >>],
      [has_title |-> TRUE, title |-> <<66>>,
       text |-> <<69, 70>>,
       hrefs |-> << <<"/", "a", ".", "p", "d", "f">>, <<"#", "t">>, <<>> >>] }

-----------------------------------------------------------------------------
(* crawl_website *)

MaxCalls == 2

\* re.sub(r'\s+', ' ', s)
NormalizeWs(s) ==
    LET Keep(i) == s[i] \notin Whitespace \/ i = 1 \/ s[i - 1] \notin Whitespace
        idx == SelectSeq([i \in 1..Len(s) |-> i], Keep)
    IN [k \in 1..Len(idx) |-> IF s[idx[k]] \in Whitespace THEN SP ELSE s[idx[k]]]

\* PopFront taking the newest entry: urls_to_crawl.pop()
PopBack(queue) ==
    [url |-> queue[Len(queue)], rest |-> SubSeq(queue, 1, Len(queue) - 1)]

\* PopFront reading the head without removing it: urls_to_crawl[0]
PopPeek(queue) == [url |-> Head(queue), rest |-> queue]

\* urls_to_crawl.pop(0)
PopFront(queue) == [url |-> Head(queue), rest |-> Tail(queue)]

\* ShouldSkip without the visited test
ShouldSkipHashOnly(current_url, vis) == Contains(current_url, HASH)

\* ShouldSkip without the fragment test
ShouldSkipVisitedOnly(current_url, vis) == current_url \in vis

\* if current_url in visited or "#" in current_url: continue
ShouldSkip(current_url, vis) == current_url \in vis \/ Contains(current_url, HASH)

\* Admits without the visited test
AdmitsIgnoringVisited(new_url, base, vis, excl) ==
    /\ StartsWith(new_url, base)
    /\ ~Contains(new_url, HASH)
    /\ \A k \in 1..Len(excl) : ~Contains(new_url, excl[k])

\* the negation of the skip condition of the link loop
Admits(new_url, base, vis, excl) ==
    ~ \/ ~StartsWith(new_url, base)
      \/ new_url \in vis
      \/ Contains(new_url, HASH)
      \/ \E k \in 1..Len(excl) : Contains(new_url, excl[k])

\* for link in soup.find_all('a', href=True): ... urls_to_crawl.append(new_url)
RECURSIVE EnqueueLinks(_, _, _, _, _)
EnqueueLinks(queue, new_urls, base, vis, excl) ==
    IF new_urls = <<>> THEN queue
    ELSE EnqueueLinks(IF Admits(Head(new_urls), base, vis, excl)
                      THEN Append(queue, Head(new_urls))
                      ELSE queue,
                      Tail(new_urls), base, vis, excl)

NoStep == [op |-> "none", url |-> <<>>, links |-> <<>>, html_content |-> <<>>]

NoMatch == [str1 |-> <<>>, str2 |-> <<>>, common |-> <<>>, done |-> FALSE]

\* crawl_website(base_url, exclusion_list): the statements before the loop
Call(args) ==
    /\ pc \in {"idle", "done"}
    /\ calls < MaxCalls
    /\ calls' = calls + 1
    /\ base_url' = args.base
    /\ exclusion_list' = args.excl
    /\ visited' = {}
    /\ urls_to_crawl' = <<args.base>>
    /\ results' = <<>>
    /\ pc' = "loop"
    /\ fetched' = <<>>
    /\ enqueued' = <<args.base>>
    /\ last' = [NoStep EXCEPT !.op = "call"]
    /\ UNCHANGED <<common_patterns, max_patterns, clean_calls,
                   match_call>>

\* Skip that marks the URL it discards as visited
SkipAndVisit ==
    /\ pc = "loop"
    /\ urls_to_crawl # <<>>
    /\ LET p == PopFront(urls_to_crawl)
       IN /\ ShouldSkip(p.url, visited)
          /\ visited' = visited \cup {p.url}
          /\ urls_to_crawl' = p.rest
          /\ last' = [NoStep EXCEPT !.op = "skip", !.url = p.url]
    /\ UNCHANGED <<base_url, exclusion_list, results, pc, calls, fetched,
                   enqueued, common_patterns, max_patterns, clean_calls,
                   match_call>>

\* one iteration that ends at the first continue
Skip ==
    /\ pc = "loop"
    /\ urls_to_crawl # <<>>
    /\ LET p == PopFront(urls_to_crawl)
       IN /\ ShouldSkip(p.url, visited)
          /\ urls_to_crawl' = p.rest
          /\ last' = [NoStep EXCEPT !.op = "skip", !.url = p.url]
    /\ UNCHANGED <<base_url, exclusion_list, visited, results, pc, calls, fetched,
                   enqueued, common_patterns, max_patterns, clean_calls,
                   match_call>>

\* FetchFail that puts the URL back for another attempt
FetchFailRetry(how) ==
    /\ pc = "loop"
    /\ urls_to_crawl # <<>>
    /\ LET p == PopFront(urls_to_crawl)
       IN /\ ~ShouldSkip(p.url, visited)
          /\ fetched' = Append(fetched, p.url)
          /\ urls_to_crawl' = Append(p.rest, p.url)
          /\ enqueued' = Append(enqueued, p.url)
          /\ last' = [NoStep EXCEPT !.op = how, !.url = p.url]
    /\ UNCHANGED <<base_url, exclusion_list, visited, results, pc, calls,
                   common_patterns, max_patterns, clean_calls,
                   match_call>>

\* FetchFail that still records the page, with an empty title and content
FetchFailRecorded(how) ==
    /\ pc = "loop"
    /\ urls_to_crawl # <<>>
    /\ LET p == PopFront(urls_to_crawl)
       IN /\ ~ShouldSkip(p.url, visited)
          /\ visited' = visited \cup {p.url}
          /\ fetched' = Append(fetched, p.url)
          /\ urls_to_crawl' = p.rest
          /\ results' = Append(results, [url |-> p.url, title |-> <<>>,
                                         content |-> <<>>])
          /\ last' = [NoStep EXCEPT !.op = how, !.url = p.url]
    /\ UNCHANGED <<base_url, exclusion_list, pc, calls, enqueued,
                   common_patterns, max_patterns, clean_calls, match_call>>

\* one iteration in which requests.get or raise_for_status raises
FetchFail(how) ==
    /\ pc = "loop"
    /\ urls_to_crawl # <<>>
    /\ LET p == PopFront(urls_to_crawl)
       IN /\ ~ShouldSkip(p.url, visited)
          /\ visited' = visited \cup {p.url}
          /\ fetched' = Append(fetched, p.url)
          /\ urls_to_crawl' = p.rest
          /\ last' = [NoStep EXCEPT !.op = how, !.url = p.url]
    /\ UNCHANGED <<base_url, exclusion_list, results, pc, calls, enqueued,
                   common_patterns, max_patterns, clean_calls,
                   match_call>>

\* one iteration in which the page is fetched, recorded and its links admitted
FetchOk(page) ==
    /\ pc = "loop"
    /\ urls_to_crawl # <<>>
    /\ LET p == PopFront(urls_to_crawl)
           vis == visited \cup {p.url}
           title == IF page.has_title THEN Strip(page.title) ELSE NO_TITLE
           html_content == NormalizeWs(page.text)
           new_urls == [i \in 1..Len(page.hrefs) |-> urljoin(base_url, page.hrefs[i])]
       IN /\ ~ShouldSkip(p.url, visited)
          /\ visited' = vis
          /\ fetched' = Append(fetched, p.url)
          /\ \E c \in {clean_content(common_patterns, max_patterns, html_content)} :
                /\ common_patterns' = c.patterns
                /\ results' = Append(results, [url |-> p.url, title |-> title,
                                               content |-> c.ret])
          /\ \E queue \in {EnqueueLinks(p.rest, new_urls, base_url, vis, exclusion_list)} :
                /\ urls_to_crawl' = queue
                /\ enqueued' = enqueued \o SubSeq(queue, Len(p.rest) + 1, Len(queue))
          /\ last' = [op |-> "ok", url |-> p.url, links |-> new_urls,
                      html_content |-> html_content]
    /\ UNCHANGED <<base_url, exclusion_list, pc, calls, max_patterns, clean_calls,
                   match_call>>

\* while urls_to_crawl: ... return results
Return ==
    /\ pc = "loop"
    /\ urls_to_crawl = <<>>
    /\ pc' = "done"
    /\ last' = [NoStep EXCEPT !.op = "return"]
    /\ UNCHANGED <<base_url, exclusion_list, visited, urls_to_crawl, results, calls,
                   fetched, enqueued, common_patterns, max_patterns, clean_calls,
                   match_call>>

\* the module-level cleaner, HTMLPatternCleaner(max_patterns=5), no crawl yet
Init ==
    /\ base_url = <<>>
    /\ exclusion_list = <<>>
    /\ visited = {}
    /\ urls_to_crawl = <<>>
    /\ results = <<>>
    /\ pc = "idle"
    /\ calls = 0
    /\ fetched = <<>>
    /\ enqueued = <<>>
    /\ last = NoStep
    /\ common_patterns = <<>>
    /\ max_patterns = DefaultMaxPatterns
    /\ clean_calls = <<>>
    /\ match_call = NoMatch

Step ==
    \/ Skip
    \/ \E how \in {"get", "status"} : FetchFail(how)
    \/ \E page \in Pages : FetchOk(page)
    \/ Return

Next ==
    \/ \E args \in CrawlArgs : Call(args)
    \/ Step

Spec == Init /\ [][Next]_vars

\* the interpreter keeps executing a running call: the loop is never
\* abandoned while an iteration can be taken
FairSpec == Spec /\ WF_vars(Step)

-----------------------------------------------------------------------------
(* clean_content called directly on a cleaner built with any capacity *)

MaxCleanCalls == 3

\* HTMLPatternCleaner(max_patterns=...)
MaxPatternsValues == {0, 2, DefaultMaxPatterns}

\* a block of 250 characters over ten letters, each of them frequent
J == Cyc(65, 10, 250)

T_EMPTY == <<>>

T_SHORT == <<SP, 67, 9, 68, SP>>

T_A == K \o <<SP>> \o Rng(2000, 20)

T_B == Rng(3000, 20) \o <<SP>> \o K \o <<SP>>

T_AJ == <<64>> \o J

T_BJ == <<35>> \o J

\* the content arguments of the calls
Texts == {T_EMPTY, T_SHORT, T_A, T_B, T_AJ, T_BJ}

InitClean ==
    /\ base_url = <<>>
    /\ exclusion_list = <<>>
    /\ visited = {}
    /\ urls_to_crawl = <<>>
    /\ results = <<>>
    /\ pc = "idle"
    /\ calls = 0
    /\ fetched = <<>>
    /\ enqueued = <<>>
    /\ last = NoStep
    /\ common_patterns = <<>>
    /\ max_patterns \in MaxPatternsValues
    /\ clean_calls = <<>>
    /\ match_call = NoMatch

\* cleaner.clean_content(content)
CleanCall(content) ==
    /\ Len(clean_calls) < MaxCleanCalls
    /\ \E c \in {clean_content(common_patterns, max_patterns, content)} :
          /\ common_patterns' = c.patterns
          /\ clean_calls' = Append(clean_calls,
                                   [content |-> content, ret |-> c.ret,
                                    iterations |-> c.iterations,
                                    steps |-> c.steps])
    /\ UNCHANGED <<crawlVars, max_patterns, match_call>>

NextClean == \E content \in Texts : CleanCall(content)

SpecClean == InitClean /\ [][NextClean]_vars

-----------------------------------------------------------------------------
(* clean_content on pages that share several blocks with the first page *)

\* 255 pairwise distinct characters; R(n) is the block of the first n
R(n) == Rng(1000, n)

\* the first page: a block of distinct characters, then a block of frequent ones
T_P == R(255) \o <<SP>> \o T_AJ

\* a page with 250 characters of the first block, twice, and the second block
T_C250 == R(250) \o <<36>> \o T_AJ \o <<36>> \o R(250)

\* a page with 251 characters of the first block and the second block
T_C251 == R(251) \o <<36>> \o T_AJ

\* R(250) inside a copy of itself: its first 100 characters, R(250), its rest
T_KJ == SubSeq(R(250), 1, 100) \o R(250) \o SubSeq(R(250), 101, 250)

\* six different 250-character stretches of the first block
T_SIX ==
    SubSeq(R(255), 1, 250) \o <<36>> \o SubSeq(R(255), 2, 251) \o <<36>>
    \o SubSeq(R(255), 3, 252) \o <<36>> \o SubSeq(R(255), 4, 253) \o <<36>>
    \o SubSeq(R(255), 5, 254) \o <<36>> \o SubSeq(R(255), 6, 255)

StripTexts == {T_P, T_C250, T_C251, T_KJ, T_SIX}

\* HTMLPatternCleaner(max_patterns=7)
StripMaxPatternsValues == {7}

InitStrip ==
    /\ base_url = <<>>
    /\ exclusion_list = <<>>
    /\ visited = {}
    /\ urls_to_crawl = <<>>
    /\ results = <<>>
    /\ pc = "idle"
    /\ calls = 0
    /\ fetched = <<>>
    /\ enqueued = <<>>
    /\ last = NoStep
    /\ common_patterns = <<>>
    /\ max_patterns \in StripMaxPatternsValues
    /\ clean_calls = <<>>
    /\ match_call = NoMatch

NextStrip == \E content \in StripTexts : CleanCall(content)

SpecStrip == InitStrip /\ [][NextStrip]_vars

-----------------------------------------------------------------------------
(* find_longest_common_substring called directly *)

MaxStrLen == 3

\* every string of at most n characters over a two-letter alphabet
RECURSIVE Strings(_)
Strings(n) ==
    IF n = 0 THEN {<<>>}
    ELSE Strings(n - 1) \cup {Append(s, c) : s \in Strings(n - 1), c \in {65, 66}}

\* the arguments of the calls: short strings, and texts of 200 characters or
\* more with rare and with frequent characters
MatchTexts == Strings(MaxStrLen) \cup {K, T_A, T_AJ, T_BJ}

InitMatch ==
    /\ base_url = <<>>
    /\ exclusion_list = <<>>
    /\ visited = {}
    /\ urls_to_crawl = <<>>
    /\ results = <<>>
    /\ pc = "idle"
    /\ calls = 0
    /\ fetched = <<>>
    /\ enqueued = <<>>
    /\ last = NoStep
    /\ common_patterns = <<>>
    /\ max_patterns = DefaultMaxPatterns
    /\ clean_calls = <<>>
    /\ match_call \in {[NoMatch EXCEPT !.str1 = a, !.str2 = b] : a, b \in MatchTexts}

\* cleaner.find_longest_common_substring(str1, str2)
Match ==
    /\ ~match_call.done
    /\ match_call' = [match_call EXCEPT
                         !.common = find_longest_common_substring(match_call.str1,
                                                                  match_call.str2),
                         !.done = TRUE]
    /\ UNCHANGED <<crawlVars, common_patterns, max_patterns, clean_calls>>

NextMatch == Match

SpecMatch == InitMatch /\ [][NextMatch]_vars

-----------------------------------------------------------------------------
(* Properties of the crawl loop *)

\* how often u occurs in the sequence q
Count(q, u) == Cardinality({i \in 1..Len(q) : q[i] = u})

\* the position at which u was first put in the queue
FirstAdmission(u) == MinOf({i \in 1..Len(enqueued) : enqueued[i] = u})

\* some URL of this crawl was fetched and has no record: its fetch failed
SomeFetchFailed == Len(results) < Len(fetched)

\* C1: in a run of crawl_website every URL is fetched at most once, however
\* many pages link to it and however many copies of it the queue holds.
C1_FetchedAtMostOnce ==
    \A i, j \in 1..Len(fetched) : i # j => fetched[i] # fetched[j]

\* a finished crawl in which a fetched URL had been queued more than once
C1_Witness ==
    /\ pc = "done"
    /\ \E i \in 1..Len(fetched) : Count(enqueued, fetched[i]) >= 2

\* C2: every entry ever put in urls_to_crawl, the seed included, starts with
\* base_url and contains no string of exclusion_list.
C2_EnqueuedAreAdmissible ==
    \A i \in 1..Len(enqueued) :
        /\ StartsWith(enqueued[i], base_url)
        /\ \A k \in 1..Len(exclusion_list) :
              ~Contains(enqueued[i], exclusion_list[k])

\* C3: no URL containing '#' is ever fetched, a seed containing '#' included.
C3_NoFragmentFetched ==
    \A i \in 1..Len(fetched) : ~Contains(fetched[i], HASH)

\* a crawl whose seed contains '#' has run to its end
C3_Witness ==
    /\ pc = "done"
    /\ Contains(base_url, HASH)
    /\ last.op = "return"

\* C4: a link found on a fetched page is appended to the queue if and only if
\* it starts with base_url, is not in visited at that moment, contains no '#'
\* and contains no exclusion substring; the queue is not consulted, so every
\* qualifying occurrence of a link is appended, in document order.
C4_AdmissionIsFourWay ==
    [][ Len(results') = Len(results) + 1 =>
          LET Qualifies(u) ==
                  /\ StartsWith(u, base_url)
                  /\ u \notin visited'
                  /\ ~Contains(u, HASH)
                  /\ \A k \in 1..Len(exclusion_list) : ~Contains(u, exclusion_list[k])
          IN urls_to_crawl' = Tail(urls_to_crawl) \o SelectSeq(last'.links, Qualifies)
      ]_vars

\* the scenario of the specification: base http://ex.test/, the seed page
\* links /b, /c#frag and http://other.test/x, and the queue then holds
\* exactly http://ex.test/b
C4_Witness ==
    /\ base_url = EX \o <<"/">>
    /\ last.op = "ok"
    /\ last.url = base_url
    /\ last.links = << EX \o <<"/", "b">>,
                       EX \o <<"/", "c", "#", "f", "r", "a", "g">>,
                       OTHER_SITE \o <<"/", "x">> >>
    /\ urls_to_crawl = << EX \o <<"/", "b">> >>

\* C5: strict breadth-first order: of two visited URLs, the one visited first
\* is the one whose first admission to the queue came first.
C5_BreadthFirst ==
    \A i, j \in 1..Len(fetched) :
        (i < j) <=> (FirstAdmission(fetched[i]) < FirstAdmission(fetched[j]))

\* a finished crawl of three pages or more with duplicate queue entries and a
\* failed fetch
C5_Witness ==
    /\ pc = "done"
    /\ Len(fetched) >= 3
    /\ SomeFetchFailed
    /\ \E i \in 1..Len(enqueued) : Count(enqueued, enqueued[i]) >= 2

\* C6: a failed fetch is a dead end and nothing more: the URL is in visited
\* and stays there, so that it is never fetched again; no record is appended,
\* no link is enqueued, the pattern store is unchanged, and the loop goes on
\* with the rest of the queue.
C6_FailureIsDeadEnd ==
    [][ /\ (Len(fetched') = Len(fetched) + 1 /\ Len(results') = Len(results)) =>
            /\ fetched'[Len(fetched')] \in visited'
            /\ results' = results
            /\ urls_to_crawl' = Tail(urls_to_crawl)
            /\ enqueued' = enqueued
            /\ common_patterns' = common_patterns
            /\ pc' = "loop"
        /\ Len(fetched') = Len(fetched) + 1 => fetched'[Len(fetched')] \notin visited
        /\ calls' = calls => visited \subseteq visited'
      ]_vars

\* a crawl went on after a failed fetch and recorded a later page
C6_Witness ==
    /\ SomeFetchFailed
    /\ Len(results) >= 1
    /\ results[Len(results)].url = fetched[Len(fetched)]
    /\ fetched[1] \in visited

C14_StoreFreshPerCall ==
    (last.op = "ok" /\ Len(results) = 1) =>
        /\ results[1].content = last.html_content
        /\ common_patterns = <<<<-Len(last.html_content), last.html_content>>>>

\* the URLs of the records, in order
ResultUrls == [i \in 1..Len(results) |-> results[i].url]

C19_SkipOnlyPops ==
    [][ (/\ pc = "loop"
         /\ urls_to_crawl # <<>>
         /\ Head(urls_to_crawl) \in visited \/ Contains(Head(urls_to_crawl), HASH)) =>
            /\ urls_to_crawl' = Tail(urls_to_crawl)
            /\ visited' = visited
            /\ results' = results
            /\ common_patterns' = common_patterns
            /\ fetched' = fetched
            /\ pc' = "loop"
      ]_vars

\* a second copy of a URL already fetched and recorded was popped and dropped,
\* with entries left in the queue
C19_Witness ==
    /\ last.op = "skip"
    /\ last.url \in visited
    /\ \E i \in 1..Len(results) : results[i].url = last.url
    /\ urls_to_crawl # <<>>

-----------------------------------------------------------------------------
(* Properties of clean_content *)

\* the 250-character windows of s, by their start
Windows(s) == 1..(Len(s) - MinPatternLen + 1)

Window(s, i) == SubSeq(s, i, i + MinPatternLen - 1)

\* C8: when the first page ever processed, A, and the page processed next, B,
\* share a block of at least 250 characters, the block is present in A's
\* output and does not occur in B's output.  (A shared block of 250 or more
\* characters is in B's output exactly when one of its 250-character windows
\* is, so the windows decide the claim.)
C8_SharedBlockStripped ==
    Len(clean_calls) >= 2 =>
        \A i \in Windows(clean_calls[1].content) :
            Contains(clean_calls[2].content, Window(clean_calls[1].content, i)) =>
                /\ Contains(clean_calls[1].ret, Window(clean_calls[1].content, i))
                /\ ~Contains(clean_calls[2].ret, Window(clean_calls[1].content, i))

\* C9: clean_content on an empty store returns its input unchanged and leaves
\* the store holding exactly one pattern, whose text is that input.
C9_SeedingReturnsInput ==
    [][ (common_patterns = <<>> /\ Len(clean_calls') = Len(clean_calls) + 1) =>
            /\ clean_calls'[Len(clean_calls')].ret = clean_calls'[Len(clean_calls')].content
            /\ Len(common_patterns') = 1
            /\ common_patterns'[1][2] = clean_calls'[Len(clean_calls')].content
      ]_vars

\* the store was seeded by a text with blanks at both ends, which came back
\* untrimmed
C9_Witness ==
    /\ Len(clean_calls) = 1
    /\ clean_calls[1].content = T_SHORT
    /\ clean_calls[1].ret = T_SHORT
    /\ common_patterns = << <<-Len(T_SHORT), T_SHORT>> >>

\* C10: the store never holds more than max_patterns entries.
C10_StoreWithinCapacity == Len(common_patterns) <= max_patterns

-----------------------------------------------------------------------------
(* Properties of the stripping iterations *)

\* the latest direct clean_content call
LastCall == clean_calls[Len(clean_calls)]

\* the content the k-th execution of the loop body of call c started from
Before(c, k) == IF k = 1 THEN c.content ELSE c.steps[k - 1].after

\* the executions of the loop body of call c that stripped
Stripping(c) == {k \in 1..Len(c.steps) : c.steps[k].stripped}

\* where p occurs in s
Occurrences(s, p) == {i \in 1..(Len(s) - Len(p) + 1) : MatchAt(s, i, p)}

\* the occurrences of p in s that overlap no occurrence to their left in the
\* same set: the leftmost one, then the leftmost one past its end, and so on
LeftmostDisjoint(s, p) ==
    CHOOSE S \in SUBSET Occurrences(s, p) :
        \A i \in Occurrences(s, p) :
            i \in S <=> ~ \E g \in S : g < i /\ i < g + Len(p)

\* t is s with the stretches of length m that start at the positions in S
\* (pairwise disjoint) cut out: every other character of s is in t, moved
\* left by the length of the stretches cut out before it
IsCutOut(t, s, S, m) ==
    /\ Len(t) = Len(s) - m * Cardinality(S)
    /\ \A i \in 1..Len(s) :
          (~ \E g \in S : g <= i /\ i < g + m) =>
              t[i - m * Cardinality({g \in S : g < i})] = s[i]

\* C11 as claimed: right after the removal step of an iteration the content
\* contains no occurrence of the substring matched in that iteration.
C11_NoOccurrenceLeft ==
    clean_calls # <<>> =>
        \A k \in Stripping(LastCall) :
            ~Contains(LastCall.steps[k].after, LastCall.steps[k].match)

\* C11 as amended: the removal step deletes the matched substring the way
\* str.replace does: the content after it is the content before it with the
\* leftmost occurrence of the match, and every later occurrence that overlaps
\* no deleted one, cut out (at least one occurrence is).
C11_RemovesDisjointOccurrences ==
    clean_calls # <<>> =>
        \A c \in {LastCall} : \A k \in Stripping(c) :
            \A before \in {Before(c, k)}, match \in {c.steps[k].match} :
                \A S \in {LeftmostDisjoint(before, match)} :
                    /\ S # {}
                    /\ \A after \in {c.steps[k].after}, m \in {Len(match)} :
                          IsCutOut(after, before, S, m)

\* an iteration deleted the only occurrence of its match and the text on the
\* two sides of it joined into the match again
C11_Witness ==
    /\ clean_calls # <<>>
    /\ \E k \in Stripping(LastCall) :
          /\ Cardinality(Occurrences(Before(LastCall, k), LastCall.steps[k].match)) = 1
          /\ Contains(LastCall.steps[k].after, LastCall.steps[k].match)

\* C13: in every iteration the best match is the match of the first stored
\* pattern, in store order, whose match is of maximal length: a later pattern
\* wins only with a strictly longer match.  That match is the one the
\* iteration takes out and, capacity permitting, stores.
C13_FirstLongestWins ==
    clean_calls # <<>> =>
        \A c \in {LastCall} : \A k \in 1..Len(c.steps) :
            \A commons \in {c.steps[k].commons}, match \in {c.steps[k].match} :
                /\ \E i \in 1..Len(commons) :
                      /\ match = commons[i]
                      /\ \A j \in 1..Len(commons) :
                            /\ j < i => Len(commons[j]) < Len(match)
                            /\ j > i => Len(commons[j]) <= Len(match)
                /\ (c.steps[k].stripped /\ Len(commons) < max_patterns) =>
                      common_patterns[Len(commons) + 1][2] = match

\* an iteration in which an earlier pattern matched 250 characters and a later
\* one 251, and the 251 characters were taken out
C13_Witness ==
    /\ clean_calls # <<>>
    /\ \E k \in Stripping(LastCall) :
          \E i, j \in 1..Len(LastCall.steps[k].commons) :
              /\ i < j
              /\ Len(LastCall.steps[k].commons[i]) = MinPatternLen
              /\ Len(LastCall.steps[k].commons[j]) = MinPatternLen + 1
              /\ LastCall.steps[k].match = LastCall.steps[k].commons[j]
              /\ ~Contains(LastCall.steps[k].after, LastCall.steps[k].match)

\* how many patterns call c, a call that entered the loop, added to the store
\* (the store held one match per pattern when the loop body first ran)
Appended(c) == Len(common_patterns) - Len(c.steps[1].commons)

\* C16: a call of clean_content runs at most 5 stripping iterations: it takes
\* out at most 5 matched substrings and adds at most 5 patterns to the store.
C16_AtMostFiveIterations ==
    clean_calls # <<>> =>
        \A c \in {LastCall} :
            /\ c.iterations <= 5
            /\ Len(c.steps) <= 5
            /\ Cardinality(Stripping(c)) = c.iterations
            /\ c.steps # <<>> => Appended(c) <= 5

\* a call ran 5 iterations, each added a pattern, and the content it was left
\* with still holds 250 characters of the first stored pattern
C16_Witness ==
    /\ clean_calls # <<>>
    /\ LastCall.iterations = 5
    /\ Appended(LastCall) = 5
    /\ \E i \in Windows(common_patterns[1][2]) :
          Contains(LastCall.steps[5].after, Window(common_patterns[1][2], i))

\* C18: in a call on a store that is not empty, an iteration strips exactly
\* when its best match has 250 characters or more; a best match below 250
\* ends the loop with the content as that iteration found it, which is
\* returned trimmed; the store changes only by the patterns, of 250 characters
\* or more, that stripping iterations add, and not at all without one.
C18_ThresholdGatesMutation ==
    [][ (Len(clean_calls') = Len(clean_calls) + 1 /\ common_patterns # <<>>) =>
          \A c \in {clean_calls'[Len(clean_calls')]} :
              /\ c.steps # <<>>
              /\ \A k \in 1..Len(c.steps) :
                    /\ c.steps[k].stripped <=> Len(c.steps[k].match) >= 250
                    /\ ~c.steps[k].stripped =>
                          k = Len(c.steps) /\ c.steps[k].after = Before(c, k)
              /\ c.ret = Strip(c.steps[Len(c.steps)].after)
              /\ Stripping(c) = {} =>
                    common_patterns' = common_patterns /\ c.ret = Strip(c.content)
              /\ Len(common_patterns') <= Len(common_patterns) + Cardinality(Stripping(c))
              /\ \A p \in (Len(common_patterns) + 1)..Len(common_patterns') :
                    Len(common_patterns'[p][2]) >= 250
      ]_vars

\* a call stripped a match of exactly 250 characters and then stopped at a
\* best match of 249
C18_Witness ==
    /\ clean_calls # <<>>
    /\ \E k \in Stripping(LastCall) : Len(LastCall.steps[k].match) = 250
    /\ ~LastCall.steps[Len(LastCall.steps)].stripped
    /\ Len(LastCall.steps[Len(LastCall.steps)].match) = 249

-----------------------------------------------------------------------------
(* Properties of find_longest_common_substring *)

\* a and b have a common contiguous substring of length n
HaveCommon(a, b, n) ==
    \E i \in 1..(Len(a) - n + 1), j \in 1..(Len(b) - n + 1) :
        \A k \in 0..(n - 1) : a[i + k] = b[j + k]

\* C17: find_longest_common_substring returns a string that occurs in both
\* arguments, and the arguments have no common substring that is longer.
C17_LongestCommonIsExact ==
    match_call.done =>
        /\ Contains(match_call.str1, match_call.common)
        /\ Contains(match_call.str2, match_call.common)
        /\ ~HaveCommon(match_call.str1, match_call.str2, Len(match_call.common) + 1)

-----------------------------------------------------------------------------
(* Properties of the pattern store *)

\* C12: the store is ordered by descending pattern length: each stored pattern
\* is at least as long as every pattern stored after it.
C12_StoreDescending ==
    \A i, j \in 1..Len(common_patterns) :
        i < j => Len(common_patterns[i][2]) >= Len(common_patterns[j][2])

\* C20: the store is append-only, every pattern after the first has 250
\* characters or more and is a contiguous substring of the first pattern, and
\* so is everything a call strips.
C20_StoreGrowsFromFirstPage ==
    /\ [][ /\ Len(common_patterns) <= Len(common_patterns')
           /\ SubSeq(common_patterns', 1, Len(common_patterns)) = common_patterns
         ]_vars
    /\ [](\A p \in 2..Len(common_patterns) :
             /\ Len(common_patterns[p][2]) >= 250
             /\ common_patterns[p][1] = -Len(common_patterns[p][2])
             /\ Contains(common_patterns[1][2], common_patterns[p][2]))
    /\ [](clean_calls # <<>> =>
             \A k \in Stripping(LastCall) :
                 Contains(common_patterns[1][2], LastCall.steps[k].match))

\* the store holds, after the first page, a pattern and then a longer one,
\* added by different calls
C20_Witness ==
    /\ Len(clean_calls) >= 3
    /\ Len(common_patterns) >= 3
    /\ \E p \in 2..(Len(common_patterns) - 1) :
          Len(common_patterns[p][2]) < Len(common_patterns[p + 1][2])
    /\ Stripping(LastCall) # {}

=============================================================================
